---- MODULE Spec2Model ----
(***************************************************************************)
(* Model of mltsp/custom_feature_tools.py: the contract-enforcing wrapper  *)
(* (myFeature), the round-based scheduler (call_custom_functions, entered  *)
(* through execute_functions_in_order), the sandbox orchestrator           *)
(* (docker_extract_features) and the two functions that decide where a     *)
(* script runs (generate_custom_features, verify_new_script).              *)
(*                                                                         *)
(* Feature values are modelled by their origin: "given" for a value of a   *)
(* KnownFeatures mapping, the name of the user function for a value that   *)
(* function returned.                                                      *)
(***************************************************************************)
EXTENDS Integers, Sequences, FiniteSets, TLC

\* ------------------------------------------------------------------------
\* Bounded input sets
\* ------------------------------------------------------------------------

\* Feature names that appear in contracts and in KnownFeatures.
Names == {"x", "y"}

\* Function names of a script, in declaration order.
DeclOrder == <<"f1", "f2", "f3">>

\* The scheduler's round counter i is unbounded in the code; the model stops
\* opening rounds at MaxRounds.
MaxRounds == 4

\* Largest number of names in one requires list / one provides list.
MaxReq == 2
MaxProv == 1

\* Longest requires / provides list, and most positional arguments, of a
\* direct call of a wrapped function.
MaxListLen == 2
MaxArgs == 1

\* Longest list of KnownFeatures instances handed to one scheduler call.
MaxInstances == 2

\* Number of calls of docker_extract_features in one run of the host.
MaxCalls == 2

\* Names uuid4 can give a working directory.
DirIds == {"d1", "d2"}

\* The most lines a script file has.
MaxLines == 4

Range(s) == {s[k] : k \in DOMAIN s}

Min(S) == CHOOSE a \in S : \A b \in S : a <= b

\* The empty dict {}.
EmptyDict == [n \in {} |-> "given"]

\* Mutant: a key both dicts hold keeps the value of the first.
DictMerge_keepfirst(a, b) ==
    [n \in (DOMAIN a) \cup (DOMAIN b) |-> IF n \in DOMAIN a THEN a[n] ELSE b[n]]

\* dict(list(a.items()) + list(b.items())): keys of b override keys of a.
DictMerge(a, b) ==
    [n \in (DOMAIN a) \cup (DOMAIN b) |-> IF n \in DOMAIN b THEN b[n] ELSE a[n]]

\* A list holding the elements of a finite set, each once.
RECURSIVE SetToSeq(_)
SetToSeq(S) ==
    IF S = {} THEN <<>>
    ELSE LET a == CHOOSE b \in S : TRUE IN <<a>> \o SetToSeq(S \ {a})

\* Mutant: the function that ran stays in the list.
ListRemove_kept(s, x) == s

\* list.remove(x): drops the first occurrence of x.
ListRemove(s, x) ==
    LET k == Min({j \in DOMAIN s : s[j] = x})
    IN [j \in 1..(Len(s) - 1) |-> IF j < k THEN s[j] ELSE s[j + 1]]

\* ------------------------------------------------------------------------
\* myFeature: the contract-enforcing wrapper
\* ------------------------------------------------------------------------

\* What the decorated function f does when it is called: it returns a dict
\* or raises an exception of its own.
FReturn(d) == [kind |-> "return", value |-> d]
FRaise == [kind |-> "raise", value |-> EmptyDict]

WrapOutcome(o, n, inv, v) == [outcome |-> o, name |-> n, invoked |-> inv, value |-> v]

\* Mutant: the required-argument loop is skipped.
wrapped_f_nocheck(requires, provides, args, kwargs, fres) ==
    IF fres.kind = "raise"
    THEN WrapOutcome("UserException", "", TRUE, EmptyDict)
    ELSE LET missR == {k \in DOMAIN provides : provides[k] \notin DOMAIN fres.value}
         IN IF missR # {}
            THEN WrapOutcome("MissingRequiredReturnKeyError", provides[Min(missR)],
                             TRUE, EmptyDict)
            ELSE WrapOutcome("return", "", TRUE, fres.value)

\* wrapped_f(*args, **kwargs): args is the tuple of positional values, kwargs
\* the dict of keyword arguments, fres what f does if it is called.  The
\* result names the error raised (with the name it reports) or carries the
\* returned dict; invoked tells whether f was called.
wrapped_f(requires, provides, args, kwargs, fres) ==
    LET missP == {k \in DOMAIN requires :
                     requires[k] \notin Range(args) /\ requires[k] \notin DOMAIN kwargs}
        missR == {k \in DOMAIN provides : provides[k] \notin DOMAIN fres.value}
    IN IF missP # {}
       THEN WrapOutcome("MissingRequiredParameterError", requires[Min(missP)],
                        FALSE, EmptyDict)
       ELSE IF fres.kind = "raise"
       THEN WrapOutcome("UserException", "", TRUE, EmptyDict)
       ELSE IF missR # {}
       THEN WrapOutcome("MissingRequiredReturnKeyError", provides[Min(missR)],
                        TRUE, EmptyDict)
       ELSE WrapOutcome("return", "", TRUE, fres.value)

\* ------------------------------------------------------------------------
\* Scripts and their contracts
\* ------------------------------------------------------------------------

ReqSets == {r \in SUBSET Names : Cardinality(r) <= MaxReq}
ProvSets == {p \in SUBSET Names : Cardinality(p) >= 1 /\ Cardinality(p) <= MaxProv}
Contract == [requires : ReqSets, provides : ProvSets]

\* fnames_req_prov_dict of a script that declares the first k functions.
Scripts == UNION {[{DeclOrder[j] : j \in 1..k} -> Contract] : k \in 1..Len(DeclOrder)}

\* parse_for_req_prov_params: the union of all requires, the union of all
\* provides.
AllRequired(dict) == UNION {dict[f].requires : f \in DOMAIN dict}
AllProvided(dict) == UNION {dict[f].provides : f \in DOMAIN dict}

\* KnownFeatures mappings: any set of names, each bound to a given value.
KnownDicts == UNION {[K -> {"given"}] : K \in SUBSET Names}

\* What a user function f with declared provides provs may do when called:
\* return a dict of values it computed (with all declared keys, with one
\* undeclared key more, or with one declared key missing), or raise.
ResultKeySets(provs) ==
    {provs} \cup {provs \cup {n} : n \in Names} \cup {provs \ {n} : n \in provs}
UserOutcomes(f, provs) ==
    {FReturn([n \in D |-> f]) : D \in ResultKeySets(provs)} \cup {FRaise}

\* The two-function chain: one function requires m and provides x, the other
\* requires x and provides y; the script declares them in either order.
ChainContract(req, prov) == [requires |-> {req}, provides |-> {prov}]
ChainScripts ==
    {[f \in {"f1", "f2"} |-> IF f = first THEN ChainContract("m", "x")
                                           ELSE ChainContract("x", "y")] :
        first \in {"f1", "f2"}}
ChainKnownDicts == UNION {[K -> {"given"}] : K \in SUBSET {"m", "x", "y"}}

\* ------------------------------------------------------------------------
\* State of a direct call of a wrapped function
\* ------------------------------------------------------------------------

VARIABLES
    w_pc,          \* "ready" before the call, "exited" after it
    w_requires,    \* the decorator's requires list
    w_provides,    \* the decorator's provides list
    w_args,        \* positional argument values of the call
    w_kwargs,      \* keyword arguments of the call
    w_fres,        \* what the decorated function does if it is called
    w_result       \* how the call of the wrapped function ended

wrapVars == <<w_pc, w_requires, w_provides, w_args, w_kwargs, w_fres, w_result>>

\* ------------------------------------------------------------------------
\* State of docker_extract_features and of the host it runs on
\* ------------------------------------------------------------------------

VARIABLES
    d_pc,                  \* position in docker_extract_features
    d_call,                \* number of the current call
    d_done,                \* the steps the current call has completed
    tmp_dirs,              \* the directories that exist under PROJECT_PATH/tmp
    dir_results,           \* per directory: the results file it holds, if any
    containers,            \* the containers that exist
    container_result,      \* the results file inside the current container
    path_to_tmp_dir,       \* locals of the two functions
    client,
    cont_id,
    results_list_of_dict,
    d_failure,             \* the failure of the launch/wait/retrieve phase
    d_raising,             \* the exception in flight
    d_returning,           \* the value being returned
    d_exit,                \* how the call ended, as its caller sees it
    arg_known,             \* the caller's features_already_known_list argument
    arg_paths,             \* the caller's ts_datafile_paths argument
    arg_data,              \* the caller's ts_data_list argument
    default_known_list,    \* the list object that is the parameter's default
    d_known_in,            \* features_already_known_list as the call found it
    d_known                \* features_already_known_list as it is now

dockVars == <<d_pc, d_call, d_done, tmp_dirs, dir_results, containers,
              container_result, path_to_tmp_dir, client, cont_id,
              results_list_of_dict, d_failure, d_raising, d_returning, d_exit,
              arg_known, arg_paths, arg_data, default_known_list, d_known_in,
              d_known>>

\* ------------------------------------------------------------------------
\* State of call_custom_functions
\* ------------------------------------------------------------------------

VARIABLES
    entry,                       \* the function the caller entered through
    fnames_req_prov_dict,        \* the script's contracts
    all_required_params,         \* call_custom_functions' arguments
    all_provided_params,
    features_already_known_list,
    pc,                          \* position in call_custom_functions
    sys_stdout,                  \* "orig" or "dummy"
    inst,                        \* instances of the list already completed
    all_required_params_copy,    \* the PendingSet
    funcnames,
    pos,                         \* index of the for loop's list iterator
    i,
    func_rounds,
    func_queue,
    all_extracted_features,
    all_extracted_features_list,
    calls,                       \* the scheduler's calls of user functions so far
    exc,                         \* the exception that ended the call, if any
    save_stdout,                 \* the stream sys.stdout was bound to at entry
    deterministic,               \* the user functions are deterministic
    user_code,                   \* what the user functions have done so far
    run_no,                      \* number of the caller's current call
    first_run,                   \* how the caller's first call ended
    key_order                    \* the order in which a dict yields its keys

schedVars == <<entry, fnames_req_prov_dict, all_required_params, all_provided_params,
               features_already_known_list, pc, sys_stdout, inst,
               all_required_params_copy, funcnames, pos, i, func_rounds,
               func_queue, all_extracted_features, all_extracted_features_list,
               calls, exc, save_stdout, deterministic, user_code, run_no,
               first_run, key_order>>

\* ------------------------------------------------------------------------
\* State of generate_custom_features and verify_new_script, and of the
\* process that calls them
\* ------------------------------------------------------------------------

VARIABLES
    in_docker,          \* what is_running_in_docker() returns
    images_available,   \* what docker_images_available() returns
    script,             \* the contracts of the script at the script path
    g_path,             \* the caller's path_to_csv argument
    g_arg_known,        \* the caller's features_already_known argument
    g_ts_data,          \* the caller's ts_data argument
    default_known,      \* the dict object that is the parameter's default
    g_pc,               \* position in the call
    g_call,             \* number of the current call
    g_fn,               \* the function called
    g_known_in,         \* features_already_known as the call found it
    g_known,            \* features_already_known as it is now
    g_mode,             \* how the call runs the script
    g_printed,          \* where the call's notice went
    g_exit              \* how the call ended

frontVars == <<in_docker, images_available, script, g_path, g_arg_known,
               g_ts_data, default_known, g_pc, g_call, g_fn, g_known_in,
               g_known, g_mode, g_printed, g_exit>>

\* ------------------------------------------------------------------------
\* State of parse_for_req_prov_params
\* ------------------------------------------------------------------------

VARIABLES
    all_lines,                \* the lines of the script file
    line_no,                  \* the loop variable i, a 0-based index of a line
    p_pc,                     \* position in the call
    p_exc,                    \* the exception that ended the call, if any
    p_fnames_req_prov_dict,   \* the function's fnames_req_prov_dict
    p_all_required_params,    \* the function's all_required_params
    p_all_provided_params     \* the function's all_provided_params

parseVars == <<all_lines, line_no, p_pc, p_exc, p_fnames_req_prov_dict,
               p_all_required_params, p_all_provided_params>>

vars == <<schedVars, wrapVars, dockVars, frontVars, parseVars>>

\* list(fnames_req_prov_dict.keys())
DictKeys(dict) == SelectSeq(key_order, LAMBDA f : f \in DOMAIN dict)

NoExc == [type |-> "none", name |-> ""]

\* The caller has made no earlier call.
NoRun == [pc |-> "none", exc |-> NoExc, list |-> <<>>, calls |-> <<>>,
          known |-> <<>>, picked |-> 0]

\* Mutant: every pass of the outer for loop works on the first instance.
features_already_known_first == features_already_known_list[1]

\* The KnownFeatures instance the outer for loop is working on.
features_already_known == features_already_known_list[inst + 1]

\* execute_functions_in_order: parse the script, listify the KnownFeatures and
\* call call_custom_functions, passing all_required_params for both the
\* required and the provided parameter.
execute_functions_in_order(dict, known) ==
    /\ entry = "execute_functions_in_order"
    /\ fnames_req_prov_dict = dict
    /\ all_required_params = AllRequired(dict)
    /\ all_provided_params = AllRequired(dict)
    /\ features_already_known_list = <<known>>

\* A caller that hands call_custom_functions the three values
\* parse_for_req_prov_params returned, each in its own place.
call_custom_functions(dict, known) ==
    /\ entry = "call_custom_functions"
    /\ fnames_req_prov_dict = dict
    /\ all_required_params = AllRequired(dict)
    /\ all_provided_params = AllProvided(dict)
    /\ features_already_known_list = <<known>>

SchedInit ==
    /\ \E dict \in Scripts, known \in KnownDicts :
           \/ execute_functions_in_order(dict, known)
           \/ call_custom_functions(dict, known)
    /\ pc = "call"
    /\ sys_stdout = "orig"
    /\ inst = 0
    /\ all_required_params_copy = {}
    /\ funcnames = <<>>
    /\ pos = 1
    /\ i = 0
    /\ func_rounds = <<>>
    /\ func_queue = <<>>
    /\ all_extracted_features = EmptyDict
    /\ all_extracted_features_list = <<>>
    /\ calls = <<>>
    /\ exc = NoExc
    /\ save_stdout = "orig"
    /\ deterministic = FALSE
    /\ user_code = {}
    /\ run_no = 1
    /\ first_run = NoRun
    /\ key_order = DeclOrder

inputVars == <<entry, fnames_req_prov_dict, all_required_params, all_provided_params,
               features_already_known_list, deterministic, run_no, first_run,
               key_order>>
loopVars == <<all_required_params_copy, funcnames, pos, i, func_rounds,
              func_queue, all_extracted_features>>

\* Lines 201-205: save and redirect stdout, start the list of results.
RedirectStdout ==
    /\ pc = "call"
    /\ save_stdout' = sys_stdout
    /\ sys_stdout' = "dummy"
    /\ all_extracted_features_list' = <<>>
    /\ pc' = "for_inst"
    /\ UNCHANGED <<inputVars, loopVars, inst, calls, exc>>
    /\ UNCHANGED <<user_code>>
    /\ UNCHANGED <<wrapVars, dockVars, frontVars, parseVars>>

\* Mutant: the keys of KnownFeatures are not taken out of the required names.
PendingSet_all(known) == all_required_params

\* Lines 207-208.
PendingSet(known) == {x \in all_required_params : x \notin DOMAIN known}

\* Lines 209-214: the unsatisfiable-dependency check fails.
RaiseUnsatisfiable ==
    /\ pc = "for_inst"
    /\ inst < Len(features_already_known_list)
    /\ \E reqd_param \in PendingSet(features_already_known) :
           /\ reqd_param \notin all_provided_params
           /\ exc' = [type |-> "UnsatisfiableDependency", name |-> reqd_param]
    /\ all_required_params_copy' = PendingSet(features_already_known)
    /\ pc' = "raised"
    /\ UNCHANGED <<inputVars, sys_stdout, inst, funcnames, pos, i, func_rounds,
                   func_queue, all_extracted_features,
                   all_extracted_features_list, calls>>
    /\ UNCHANGED <<save_stdout, user_code>>
    /\ UNCHANGED <<wrapVars, dockVars, frontVars, parseVars>>

\* Mutant: the extracted features start as the instance's known features.
NewExtracted_fromknown(known) == known

\* Line 220: all_extracted_features = {}, whatever the instance holds.
NewExtracted(known) == EmptyDict

\* Lines 206-220: the check passes; set up the rounds for this instance.
BeginInstance ==
    /\ pc = "for_inst"
    /\ inst < Len(features_already_known_list)
    /\ \A reqd_param \in PendingSet(features_already_known) :
           reqd_param \in all_provided_params
    /\ all_required_params_copy' = PendingSet(features_already_known)
    /\ func_queue' = <<>>
    /\ funcnames' = DictKeys(fnames_req_prov_dict)
    /\ i' = 0
    /\ func_rounds' = <<>>
    /\ all_extracted_features' = NewExtracted(features_already_known)
    /\ pc' = "while"
    /\ UNCHANGED <<inputVars, sys_stdout, inst, pos,
                   all_extracted_features_list, calls, exc>>
    /\ UNCHANGED <<save_stdout, user_code>>
    /\ UNCHANGED <<wrapVars, dockVars, frontVars, parseVars>>

\* Lines 221-223: the while test holds; open round i and start the for loop.
BeginRound ==
    /\ pc = "while"
    /\ Len(funcnames) > 0
    /\ i < MaxRounds
    /\ func_rounds' = Append(func_rounds, <<>>)
    /\ pos' = 1
    /\ pc' = "for_func"
    /\ UNCHANGED <<inputVars, sys_stdout, inst, all_required_params_copy,
                   funcnames, i, func_queue, all_extracted_features,
                   all_extracted_features_list, calls, exc>>
    /\ UNCHANGED <<save_stdout, user_code>>
    /\ UNCHANGED <<wrapVars, dockVars, frontVars, parseVars>>

\* Mutant: no function is ever deferred.
Deferred_never(pending, reqs) == FALSE

\* Line 227: a function is deferred when the PendingSet holds one of its
\* requires.
Deferred(pending, reqs) == pending \cap reqs # {}

\* Lines 223-228: the function under the iterator is deferred.
DeferFunction ==
    /\ pc = "for_func"
    /\ pos <= Len(funcnames)
    /\ LET funcname == funcnames[pos]
           reqs == fnames_req_prov_dict[funcname].requires
       IN /\ Deferred(all_required_params_copy, reqs)
          /\ func_queue' = Append(func_queue, funcname)
    /\ pos' = pos + 1
    /\ UNCHANGED <<inputVars, pc, sys_stdout, inst, all_required_params_copy,
                   funcnames, i, func_rounds, all_extracted_features,
                   all_extracted_features_list, calls, exc>>
    /\ UNCHANGED <<save_stdout, user_code>>
    /\ UNCHANGED <<wrapVars, dockVars, frontVars, parseVars>>

\* Mutant: only the KnownFeatures are looked up.
GatherArguments_knownonly(reqs, known, extracted) ==
    [req \in {r \in reqs : r \in DOMAIN known} |-> known[req]]

\* Mutant: a value already extracted is taken before the known value.
GatherArguments_extractedfirst(reqs, known, extracted) ==
    [req \in {r \in reqs : r \in DOMAIN known \/ r \in DOMAIN extracted} |->
        IF req \in DOMAIN extracted THEN extracted[req] ELSE known[req]]

\* Lines 233-238: the keyword arguments gathered for a function.
GatherArguments(reqs, known, extracted) ==
    [req \in {r \in reqs : r \in DOMAIN known \/ r \in DOMAIN extracted} |->
        IF req \in DOMAIN known THEN known[req] ELSE extracted[req]]

\* The place the current instance has in the list of the caller's first call:
\* the "given" values of two instances are different data.
InstanceId ==
    IF run_no = 2 /\ first_run.picked > 0 THEN first_run.picked ELSE inst + 1

\* Mutant: a user function may behave differently each time it is called.
Behaviours_any(f, provs, arguments) == UserOutcomes(f, provs)

\* Lines 239-240: what the body of user function f may do when called with
\* these arguments.  A deterministic function does what it did the last time
\* it was called with them, taken from the same instance.
Behaviours(f, provs, arguments) ==
    LET seen == {u \in user_code :
                    u.fn = f /\ u.args = arguments /\ u.of = InstanceId}
    IN IF deterministic /\ seen # {} THEN {u.res : u \in seen}
       ELSE UserOutcomes(f, provs)

\* Lines 229-244: the function under the iterator runs.  The round and the
\* PendingSet are updated before the call; the call goes through the wrapper;
\* a returned dict is merged and the function leaves funcnames, which the for
\* loop is iterating over.
InvokeFunction ==
    /\ pc = "for_func"
    /\ pos <= Len(funcnames)
    /\ LET funcname == funcnames[pos]
           reqs == fnames_req_prov_dict[funcname].requires
           provs == fnames_req_prov_dict[funcname].provides
           arguments == GatherArguments(reqs, features_already_known,
                                        all_extracted_features)
       IN /\ ~Deferred(all_required_params_copy, reqs)
          /\ func_rounds' = [func_rounds EXCEPT ![i + 1] = Append(@, funcname)]
          /\ all_required_params_copy' =
                 {x \in all_required_params_copy : x \notin provs}
          /\ \E fres \in Behaviours(funcname, provs, arguments) :
               LET r == wrapped_f(SetToSeq(reqs), SetToSeq(provs), <<>>,
                                  arguments, fres)
               IN /\ user_code' =
                         IF deterministic /\ r.invoked
                         THEN user_code \cup {[fn |-> funcname,
                                               args |-> arguments,
                                               of |-> InstanceId,
                                               res |-> fres]}
                         ELSE user_code
                  /\ calls' = Append(calls, [inst |-> inst, round |-> i,
                                              fn |-> funcname,
                                              args |-> arguments,
                                              ran |-> r.invoked])
                  /\ IF r.outcome = "return"
                     THEN /\ all_extracted_features' =
                                 DictMerge(all_extracted_features, r.value)
                          /\ funcnames' = ListRemove(funcnames, funcname)
                          /\ pos' = pos + 1
                          /\ UNCHANGED <<pc, exc>>
                     ELSE /\ exc' = [type |-> r.outcome, name |-> r.name]
                          /\ pc' = "raised"
                          /\ UNCHANGED <<all_extracted_features, funcnames, pos>>
    /\ UNCHANGED <<inputVars, sys_stdout, inst, i, func_queue,
                   all_extracted_features_list>>
    /\ UNCHANGED <<save_stdout>>
    /\ UNCHANGED <<wrapVars, dockVars, frontVars, parseVars>>

\* Line 245: the for loop's iterator is exhausted; the round ends.
EndRound ==
    /\ pc = "for_func"
    /\ pos > Len(funcnames)
    /\ i' = i + 1
    /\ pc' = "while"
    /\ UNCHANGED <<inputVars, sys_stdout, inst, all_required_params_copy,
                   funcnames, pos, func_rounds, func_queue,
                   all_extracted_features, all_extracted_features_list,
                   calls, exc>>
    /\ UNCHANGED <<save_stdout, user_code>>
    /\ UNCHANGED <<wrapVars, dockVars, frontVars, parseVars>>

\* Line 246: funcnames is empty; the instance's result joins the list.
EndInstance ==
    /\ pc = "while"
    /\ Len(funcnames) = 0
    /\ all_extracted_features_list' =
           Append(all_extracted_features_list, all_extracted_features)
    /\ inst' = inst + 1
    /\ pc' = "for_inst"
    /\ UNCHANGED <<inputVars, sys_stdout, loopVars, calls, exc>>
    /\ UNCHANGED <<save_stdout, user_code>>
    /\ UNCHANGED <<wrapVars, dockVars, frontVars, parseVars>>

\* Lines 247-249: every instance is done; restore stdout and return.
ReturnList ==
    /\ pc = "for_inst"
    /\ inst = Len(features_already_known_list)
    /\ sys_stdout' = save_stdout
    /\ pc' = "done"
    /\ UNCHANGED <<inputVars, inst, loopVars, all_extracted_features_list,
                   calls, exc>>
    /\ UNCHANGED <<save_stdout, user_code>>
    /\ UNCHANGED <<wrapVars, dockVars, frontVars, parseVars>>

SchedNext ==
    \/ RedirectStdout
    \/ RaiseUnsatisfiable
    \/ BeginInstance
    \/ BeginRound
    \/ DeferFunction
    \/ InvokeFunction
    \/ EndRound
    \/ EndInstance
    \/ ReturnList

\* The other components at rest.
SchedIdle ==
    /\ entry = "none"
    /\ fnames_req_prov_dict = EmptyDict
    /\ all_required_params = {}
    /\ all_provided_params = {}
    /\ features_already_known_list = <<>>
    /\ pc = "idle"
    /\ sys_stdout = "orig"
    /\ inst = 0
    /\ all_required_params_copy = {}
    /\ funcnames = <<>>
    /\ pos = 1
    /\ i = 0
    /\ func_rounds = <<>>
    /\ func_queue = <<>>
    /\ all_extracted_features = EmptyDict
    /\ all_extracted_features_list = <<>>
    /\ calls = <<>>
    /\ exc = NoExc
    /\ save_stdout = "orig"
    /\ deterministic = FALSE
    /\ user_code = {}
    /\ run_no = 1
    /\ first_run = NoRun
    /\ key_order = DeclOrder

\* ------------------------------------------------------------------------
\* A direct call of a wrapped function
\* ------------------------------------------------------------------------

NameLists == UNION {[1..n -> Names] : n \in 0..MaxListLen}
\* A positional value may or may not be equal to a feature name.
ArgValues == Names \cup {"v"}
ArgTuples == UNION {[1..n -> ArgValues] : n \in 0..MaxArgs}
KwargDicts == UNION {[K -> {"given"}] : K \in SUBSET Names}
\* The decorated function returns any dict over the names and an undeclared
\* key z, or raises.
FOutcomes == {FReturn([n \in D |-> "f"]) : D \in SUBSET (Names \cup {"z"})}
                 \cup {FRaise}

NoResult == WrapOutcome("none", "", FALSE, EmptyDict)

WrapIdle ==
    /\ w_pc = "idle"
    /\ w_requires = <<>>
    /\ w_provides = <<>>
    /\ w_args = <<>>
    /\ w_kwargs = EmptyDict
    /\ w_fres = FRaise
    /\ w_result = NoResult

WrapInit ==
    /\ w_pc = "ready"
    /\ w_requires \in NameLists
    /\ w_provides \in NameLists
    /\ w_args \in ArgTuples
    /\ w_kwargs \in KwargDicts
    /\ w_fres \in FOutcomes
    /\ w_result = NoResult

\* Lines 89-101: one call wrapped_f(*w_args, **w_kwargs).
CallWrapped ==
    /\ w_pc = "ready"
    /\ w_result' = wrapped_f(w_requires, w_provides, w_args, w_kwargs, w_fres)
    /\ w_pc' = "exited"
    /\ UNCHANGED <<w_requires, w_provides, w_args, w_kwargs, w_fres>>
    /\ UNCHANGED <<schedVars, dockVars, frontVars, parseVars>>

WrapNext == CallWrapped

\* ------------------------------------------------------------------------
\* docker_extract_features
\* ------------------------------------------------------------------------
\* A results file is
\* modelled by the number of the call whose container wrote it, 0 for no
\* file; a local variable by whether it is bound and to what.

Unbound == [bound |-> FALSE, val |-> 0]
Bound(v) == [bound |-> TRUE, val |-> v]

NoError == [type |-> "none", cause |-> "none"]
Error(t) == [type |-> t, cause |-> "none"]
NoExit == [kind |-> "none", type |-> "none", cause |-> "none", value |-> 0]

\* An argument left out or passed as None, and one passed as a list.
Omitted == [given |-> FALSE, list |-> <<>>]
Given(list) == [given |-> TRUE, list |-> list]

\* A time-series value is modelled by the call whose file or ts_data argument
\* it was parsed from; "given" is a value the caller put into the mapping.
CallTags == <<"call1", "call2", "call3", "call4">>
FromCall(n) == CallTags[n]

\* What a path or a ts_data entry holds: rows of two columns or of three.
\* The files are readable and every row of an entry has the same length.
DataKinds == {"2col", "3col"}
TsEntries == {"None"} \cup DataKinds
TsKnownDicts == UNION {[K -> {"given"}] : K \in SUBSET {"t", "m"}}
TsKnownLists == UNION {[1..n -> TsKnownDicts] : n \in 1..MaxInstances}
TsEntryLists(n) == [1..n -> TsEntries]

\* The module is loaded: no call is in progress, nothing is on the host, the
\* default of features_already_known_list is the list [{}].
DockAtRest ==
    /\ d_pc = "idle"
    /\ d_call = 0
    /\ d_done = <<>>
    /\ tmp_dirs = {}
    /\ dir_results = [u \in DirIds |-> 0]
    /\ containers = {}
    /\ container_result = 0
    /\ path_to_tmp_dir = ""
    /\ client = FALSE
    /\ cont_id = Unbound
    /\ results_list_of_dict = Unbound
    /\ d_failure = "none"
    /\ d_raising = NoError
    /\ d_returning = 0
    /\ d_exit = NoExit
    /\ default_known_list = <<EmptyDict>>
    /\ d_known_in = <<>>
    /\ d_known = <<>>

\* The callers within this module (generate_custom_features and
\* verify_new_script) pass mappings that hold t and m, and neither paths nor
\* ts_data.
TmDict == [n \in {"t", "m"} |-> "given"]
DockIdle ==
    /\ DockAtRest
    /\ arg_known = Given(<<TmDict>>)
    /\ arg_paths = Omitted
    /\ arg_data = Omitted

\* A caller outside this module passes what it likes; the lists it passes
\* are as long as the list of instances.
TsDataInit ==
    /\ DockAtRest
    /\ arg_known \in {Omitted} \cup {Given(list) : list \in TsKnownLists}
    /\ LET n == IF arg_known.given THEN Len(arg_known.list) ELSE 1
       IN /\ arg_paths \in {Omitted} \cup {Given(list) : list \in TsEntryLists(n)}
          /\ arg_data \in {Omitted} \cup {Given(list) : list \in TsEntryLists(n)}

argVars == <<arg_known, arg_paths, arg_data>>
hostVars == <<tmp_dirs, dir_results, containers>>
localVars == <<container_result, path_to_tmp_dir, client, cont_id,
               results_list_of_dict>>
flowVars == <<d_failure, d_raising, d_returning, d_exit>>

\* The call leaves docker_extract_features with exception e.
ExitRaising(e) ==
    /\ d_exit' = [kind |-> "raised", type |-> e.type, cause |-> e.cause, value |-> 0]
    /\ d_pc' = "exited"

\* A step of the try block (lines 433-462) fails: the except clause swallows
\* the exception and control reaches the finally block.
Swallowed(step) ==
    /\ d_failure' = step
    /\ d_pc' = "inner_finally"

Completed(step) == d_done' = Append(d_done, step)

\* Lines 490-535: a call begins; features_already_known_list is bound to the
\* caller's list, or to the default object when the caller gave none.
BeginDockerCall(known, paths, data) ==
    /\ arg_known' = known
    /\ arg_paths' = paths
    /\ arg_data' = data
    /\ d_call' = d_call + 1
    /\ d_done' = <<>>
    /\ container_result' = 0
    /\ path_to_tmp_dir' = ""
    /\ client' = FALSE
    /\ cont_id' = Unbound
    /\ results_list_of_dict' = Unbound
    /\ d_failure' = "none"
    /\ d_raising' = NoError
    /\ d_returning' = 0
    /\ d_exit' = NoExit
    /\ LET list == IF known.given THEN known.list ELSE default_known_list
       IN d_known_in' = list /\ d_known' = list
    /\ d_pc' = "add_tsdata"
    /\ UNCHANGED hostVars
    /\ UNCHANGED default_known_list

\* A caller outside this module calls docker_extract_features.
DockerCall ==
    /\ d_pc \in {"idle", "exited"}
    /\ d_call < MaxCalls
    /\ BeginDockerCall(arg_known, arg_paths, arg_data)
    /\ UNCHANGED <<schedVars, wrapVars, frontVars, parseVars>>

\* Lines 361-364: the two lists as the loop of add_tsdata_to_feats_known_dict
\* reads them; None where the list itself is None.
EffectivePaths(paths, n) ==
    IF paths.given THEN paths ELSE Given([k \in 1..n |-> "None"])
EffectiveData(paths, data, n) ==
    IF paths.given /\ ~data.given THEN Given([k \in 1..n |-> "None"]) ELSE data

LacksTs(known) == "t" \notin DOMAIN known \/ "m" \notin DOMAIN known

\* Lines 366-371: how the pass of the loop for instance k ends.
TsStep(list, paths, data, k) ==
    LET p == EffectivePaths(paths, Len(list))
        d == EffectiveData(paths, data, Len(list))
    IN IF ~LacksTs(list[k]) THEN "kept"
       ELSE IF p.list[k] = "None"
            THEN IF ~d.given THEN "TypeError"
                 ELSE IF d.list[k] = "None" THEN "ValueError"
                 ELSE d.list[k]
            ELSE p.list[k]

\* Lines 376-391: t and m, and e when the rows have three columns, are bound
\* in the instance to the parsed values.
WithTs(known, kind, tag) ==
    LET keys == IF kind = "3col" THEN {"t", "m", "e"} ELSE {"t", "m"}
    IN [n \in DOMAIN known \cup keys |-> IF n \in keys THEN tag ELSE known[n]]

\* Lines 357-391: add_tsdata_to_feats_known_dict on a list of instances: the
\* exception it raises, if any, and the list as it leaves it.  The instances
\* before the one that raises have been updated.
add_tsdata_to_feats_known_dict(list, paths, data, tag) ==
    LET failing == {k \in DOMAIN list :
                       TsStep(list, paths, data, k) \in {"TypeError", "ValueError"}}
        stop == IF failing = {} THEN Len(list) + 1 ELSE Min(failing)
    IN [raises |-> IF failing = {} THEN "none"
                   ELSE TsStep(list, paths, data, stop),
        list |-> [k \in DOMAIN list |->
                    IF k < stop /\ TsStep(list, paths, data, k) \in DataKinds
                    THEN WithTs(list[k], TsStep(list, paths, data, k), tag)
                    ELSE list[k]]]

\* Lines 535-536: the time-series data is put into the instances, in place:
\* when the list is the default object, the default keeps what was written.
AddTsData ==
    /\ d_pc = "add_tsdata"
    /\ LET r == add_tsdata_to_feats_known_dict(d_known, arg_paths, arg_data,
                                                FromCall(d_call))
       IN /\ d_known' = r.list
          /\ default_known_list' =
                 IF arg_known.given THEN default_known_list ELSE r.list
          /\ IF r.raises = "none"
             THEN d_pc' = "make_tmp_dir" /\ UNCHANGED d_exit
             ELSE ExitRaising(Error(r.raises))
    /\ UNCHANGED <<d_call, d_done, hostVars, localVars, d_failure, d_raising,
                   d_returning>>
    /\ UNCHANGED <<argVars, d_known_in>>
    /\ UNCHANGED <<schedVars, wrapVars, frontVars, parseVars>>

\* Lines 398-404, 538: os.makedirs creates the directory uuid4 names, or
\* raises when it exists already.
MakeTmpDir ==
    /\ d_pc = "make_tmp_dir"
    /\ \E u \in DirIds :
          IF u \in tmp_dirs
          THEN /\ ExitRaising(Error("OSError"))
               /\ UNCHANGED <<d_done, tmp_dirs, path_to_tmp_dir>>
          ELSE /\ tmp_dirs' = tmp_dirs \cup {u}
               /\ path_to_tmp_dir' = u
               /\ Completed("make_tmp_dir")
               /\ d_pc' = "copy_script"
               /\ UNCHANGED d_exit
    /\ UNCHANGED <<d_call, dir_results, containers, container_result, client,
                   cont_id, results_list_of_dict, d_failure, d_raising,
                   d_returning>>
    /\ UNCHANGED <<argVars, default_known_list, d_known_in, d_known>>
    /\ UNCHANGED <<schedVars, wrapVars, frontVars, parseVars>>

\* Lines 417-418, 540: shutil.copy of the user script, outside any try.
CopyScript ==
    /\ d_pc = "copy_script"
    /\ \/ /\ Completed("copy_script")
          /\ d_pc' = "dump_features"
          /\ UNCHANGED d_exit
       \/ /\ ExitRaising(Error("IOError"))
          /\ UNCHANGED d_done
    /\ UNCHANGED <<d_call, hostVars, localVars, d_failure, d_raising, d_returning>>
    /\ UNCHANGED <<argVars, default_known_list, d_known_in, d_known>>
    /\ UNCHANGED <<schedVars, wrapVars, frontVars, parseVars>>

\* Lines 419-424: pickle.dump of the KnownFeatures list and __init__.py,
\* outside any try.
DumpFeatures ==
    /\ d_pc = "dump_features"
    /\ \/ /\ Completed("copy_data")
          /\ d_pc' = "import_docker"
          /\ UNCHANGED d_exit
       \/ /\ ExitRaising(Error("PicklingError"))
          /\ UNCHANGED d_done
    /\ UNCHANGED <<d_call, hostVars, localVars, d_failure, d_raising, d_returning>>
    /\ UNCHANGED <<argVars, default_known_list, d_known_in, d_known>>
    /\ UNCHANGED <<schedVars, wrapVars, frontVars, parseVars>>

\* Lines 430-431: the imports of extract_feats_in_docker_container, before
\* its try block; an ImportError reaches docker_extract_features' finally.
ImportDocker ==
    /\ d_pc = "import_docker"
    /\ \/ /\ Completed("import_docker")
          /\ d_pc' = "new_client"
          /\ UNCHANGED d_raising
       \/ /\ d_raising' = Error("ImportError")
          /\ d_pc' = "outer_finally"
          /\ UNCHANGED d_done
    /\ UNCHANGED <<d_call, hostVars, localVars, d_failure, d_returning, d_exit>>
    /\ UNCHANGED <<argVars, default_known_list, d_known_in, d_known>>
    /\ UNCHANGED <<schedVars, wrapVars, frontVars, parseVars>>

\* Lines 436-437.
NewClient ==
    /\ d_pc = "new_client"
    /\ \/ /\ client' = TRUE
          /\ Completed("new_client")
          /\ d_pc' = "create_container"
          /\ UNCHANGED d_failure
       \/ /\ Swallowed("new_client")
          /\ UNCHANGED <<client, d_done>>
    /\ UNCHANGED <<d_call, hostVars, container_result, path_to_tmp_dir, cont_id,
                   results_list_of_dict, d_raising, d_returning, d_exit>>
    /\ UNCHANGED <<argVars, default_known_list, d_known_in, d_known>>
    /\ UNCHANGED <<schedVars, wrapVars, frontVars, parseVars>>

\* Lines 439-444.
CreateContainer ==
    /\ d_pc = "create_container"
    /\ \/ /\ cont_id' = Bound(d_call)
          /\ containers' = containers \cup {d_call}
          /\ Completed("create_container")
          /\ d_pc' = "start_container"
          /\ UNCHANGED d_failure
       \/ /\ Swallowed("create_container")
          /\ UNCHANGED <<cont_id, containers, d_done>>
    /\ UNCHANGED <<d_call, tmp_dirs, dir_results, container_result,
                   path_to_tmp_dir, client, results_list_of_dict, d_raising,
                   d_returning, d_exit>>
    /\ UNCHANGED <<argVars, default_known_list, d_known_in, d_known>>
    /\ UNCHANGED <<schedVars, wrapVars, frontVars, parseVars>>

\* Lines 446-448.
StartContainer ==
    /\ d_pc = "start_container"
    /\ \/ /\ Completed("start_container")
          /\ d_pc' = "wait_container"
          /\ UNCHANGED d_failure
       \/ /\ Swallowed("start_container")
          /\ UNCHANGED d_done
    /\ UNCHANGED <<d_call, hostVars, localVars, d_raising, d_returning, d_exit>>
    /\ UNCHANGED <<argVars, default_known_list, d_known_in, d_known>>
    /\ UNCHANGED <<schedVars, wrapVars, frontVars, parseVars>>

\* Lines 450-454: the container has run the script; it wrote its results
\* file, or the script failed and there is none.
WaitContainer ==
    /\ d_pc = "wait_container"
    /\ \/ /\ \E written \in BOOLEAN :
                container_result' = IF written THEN d_call ELSE 0
          /\ Completed("wait_container")
          /\ d_pc' = "docker_copy"
          /\ UNCHANGED d_failure
       \/ /\ Swallowed("wait_container")
          /\ UNCHANGED <<container_result, d_done>>
    /\ UNCHANGED <<d_call, hostVars, path_to_tmp_dir, client, cont_id,
                   results_list_of_dict, d_raising, d_returning, d_exit>>
    /\ UNCHANGED <<argVars, default_known_list, d_known_in, d_known>>
    /\ UNCHANGED <<schedVars, wrapVars, frontVars, parseVars>>

\* Lines 456-457: docker_copy puts what the container holds under
\* /tmp/results_list_of_dict.pkl into the working directory, or raises.
DockerCopy ==
    /\ d_pc = "docker_copy"
    /\ \/ /\ dir_results' = [dir_results EXCEPT ![path_to_tmp_dir] = container_result]
          /\ Completed("docker_copy")
          /\ d_pc' = "pickle_load"
          /\ UNCHANGED d_failure
       \/ /\ Swallowed("docker_copy")
          /\ UNCHANGED <<dir_results, d_done>>
    /\ UNCHANGED <<d_call, tmp_dirs, containers, localVars, d_raising,
                   d_returning, d_exit>>
    /\ UNCHANGED <<argVars, default_known_list, d_known_in, d_known>>
    /\ UNCHANGED <<schedVars, wrapVars, frontVars, parseVars>>

\* Lines 460-462: open and pickle.load of the results file in the working
\* directory; open raises when the file is not there.
PickleLoad ==
    /\ d_pc = "pickle_load"
    /\ \/ /\ dir_results[path_to_tmp_dir] # 0
          /\ results_list_of_dict' = Bound(dir_results[path_to_tmp_dir])
          /\ Completed("pickle_load")
          /\ d_pc' = "inner_finally"
          /\ UNCHANGED d_failure
       \/ /\ Swallowed("pickle_load")
          /\ UNCHANGED <<results_list_of_dict, d_done>>
    /\ UNCHANGED <<d_call, hostVars, container_result, path_to_tmp_dir, client,
                   cont_id, d_raising, d_returning, d_exit>>
    /\ UNCHANGED <<argVars, default_known_list, d_known_in, d_known>>
    /\ UNCHANGED <<schedVars, wrapVars, frontVars, parseVars>>

\* Line 467: client.remove_container(container=cont_id, force=True).
RemoveContainer(conts, id) == conts \ {id}

\* Mutant: an unbound result is returned as an undefined value.
ReturnResults_default(results) ==
    [raises |-> FALSE, value |-> IF results.bound THEN results.val ELSE -1]

\* Line 468: return results_list_of_dict; reading the local while it is
\* unbound raises UnboundLocalError.
ReturnResults(results) ==
    IF results.bound THEN [raises |-> FALSE, value |-> results.val]
    ELSE [raises |-> TRUE, value |-> 0]

\* Lines 465-468: the finally block of extract_feats_in_docker_container.
\* Reading client or cont_id while unbound raises UnboundLocalError and the
\* return is not reached.
InnerFinally ==
    /\ d_pc = "inner_finally"
    /\ IF ~client \/ ~cont_id.bound
       THEN /\ d_raising' = Error("UnboundLocalError")
            /\ UNCHANGED <<containers, d_returning>>
       ELSE /\ containers' = RemoveContainer(containers, cont_id.val)
            /\ LET r == ReturnResults(results_list_of_dict)
               IN IF r.raises
                  THEN /\ d_raising' = Error("UnboundLocalError")
                       /\ UNCHANGED d_returning
                  ELSE /\ d_returning' = r.value
                       /\ UNCHANGED d_raising
    /\ d_pc' = "outer_finally"
    /\ UNCHANGED <<d_call, d_done, tmp_dirs, dir_results, localVars, d_failure,
                   d_exit>>
    /\ UNCHANGED <<argVars, default_known_list, d_known_in, d_known>>
    /\ UNCHANGED <<schedVars, wrapVars, frontVars, parseVars>>

\* Mutant: the working directory is not removed.
RemoveTree_skipped(dirs, path) == dirs

\* Line 475: shutil.rmtree(path_to_tmp_dir, ignore_errors=True).
RemoveTree(dirs, path) == dirs \ {path}

\* Lines 546-550: except: raise; finally: remove_tmp_files; then the result
\* is returned or the exception goes on to the caller.
OuterFinally ==
    /\ d_pc = "outer_finally"
    /\ tmp_dirs' = RemoveTree(tmp_dirs, path_to_tmp_dir)
    /\ dir_results' = [u \in DirIds |->
                          IF u \in tmp_dirs' THEN dir_results[u] ELSE 0]
    /\ IF d_raising.type # "none"
       THEN ExitRaising(d_raising)
       ELSE /\ d_exit' = [kind |-> "returned", type |-> "none", cause |-> "none",
                          value |-> d_returning]
            /\ d_pc' = "exited"
    /\ UNCHANGED <<d_call, d_done, containers, localVars, d_failure, d_raising,
                   d_returning>>
    /\ UNCHANGED <<argVars, default_known_list, d_known_in, d_known>>
    /\ UNCHANGED <<schedVars, wrapVars, frontVars, parseVars>>

DockNext ==
    \/ DockerCall
    \/ AddTsData
    \/ MakeTmpDir
    \/ CopyScript
    \/ DumpFeatures
    \/ ImportDocker
    \/ NewClient
    \/ CreateContainer
    \/ StartContainer
    \/ WaitContainer
    \/ DockerCopy
    \/ PickleLoad
    \/ InnerFinally
    \/ OuterFinally

\* ------------------------------------------------------------------------
\* generate_custom_features and verify_new_script
\* ------------------------------------------------------------------------

\* How a call ends: it returns an empty list or a list of results, or raises.
FrontReturned(value) == [kind |-> "returned", type |-> "none", value |-> value]
FrontRaised(type) == [kind |-> "raised", type |-> type, value |-> "none"]
NoFrontExit == [kind |-> "none", type |-> "none", value |-> "none"]

\* No call of the two functions has been made.
FrontAtRest ==
    /\ default_known = EmptyDict
    /\ g_pc = "idle"
    /\ g_call = 0
    /\ g_fn = "none"
    /\ g_known_in = EmptyDict
    /\ g_known = EmptyDict
    /\ g_mode = "none"
    /\ g_printed = "none"
    /\ g_exit = NoFrontExit

\* The two functions are not used.
FrontIdle ==
    /\ FrontAtRest
    /\ in_docker = FALSE
    /\ images_available = FALSE
    /\ script = EmptyDict
    /\ g_path = "None"
    /\ g_arg_known = Omitted
    /\ g_ts_data = "None"

\* A process, inside a container or not, with or without the docker images,
\* whose caller passes generate_custom_features a path or none, ts_data or
\* none, and a mapping or none.
FrontInit ==
    /\ FrontAtRest
    /\ in_docker \in BOOLEAN
    /\ images_available \in BOOLEAN
    /\ script \in ChainScripts
    /\ g_path \in TsEntries
    /\ g_arg_known \in {Omitted} \cup {Given(<<known>>) : known \in TsKnownDicts}
    /\ g_ts_data \in TsEntries

frontInputs == <<in_docker, images_available, script, g_path, g_arg_known,
                 g_ts_data>>

\* The frames of the calls made before are gone; sys.stdout and what is on
\* the host stay.
FreshFrames ==
    /\ entry' = "none"
    /\ fnames_req_prov_dict' = EmptyDict
    /\ all_required_params' = {}
    /\ all_provided_params' = {}
    /\ features_already_known_list' = <<>>
    /\ pc' = "idle"
    /\ inst' = 0
    /\ all_required_params_copy' = {}
    /\ funcnames' = <<>>
    /\ pos' = 1
    /\ i' = 0
    /\ func_rounds' = <<>>
    /\ func_queue' = <<>>
    /\ all_extracted_features' = EmptyDict
    /\ all_extracted_features_list' = <<>>
    /\ calls' = <<>>
    /\ exc' = NoExc
    /\ save_stdout' = "orig"
    /\ d_pc' = "idle"
    /\ UNCHANGED <<sys_stdout, deterministic, user_code, run_no, first_run,
                   key_order>>
    /\ UNCHANGED <<d_call, d_done, hostVars, localVars, flowVars, argVars,
                   default_known_list, d_known_in, d_known>>
    /\ UNCHANGED <<wrapVars, parseVars>>

\* Lines 648-650: a call of generate_custom_features begins;
\* features_already_known is bound to the caller's dict, or to the default
\* object when the caller gave none.
GenerateCall ==
    /\ g_pc \in {"idle", "exited"}
    /\ g_call < MaxCalls
    /\ g_call' = g_call + 1
    /\ g_fn' = "generate_custom_features"
    /\ LET known == IF g_arg_known.given THEN g_arg_known.list[1]
                    ELSE default_known
       IN g_known_in' = known /\ g_known' = known
    /\ g_mode' = "none"
    /\ g_printed' = "none"
    /\ g_exit' = NoFrontExit
    /\ g_pc' = "select"
    /\ FreshFrames
    /\ UNCHANGED <<frontInputs, default_known>>

\* Lines 676-688: which of the locals t, m and e the if statement binds, and
\* whether its last branch raises.
select_input(known, path, ts_data) ==
    IF path # "None" THEN [raises |-> FALSE, tm |-> TRUE, e |-> "bound",
                           truthy |-> path = "3col"]
    ELSE IF ts_data # "None"
         THEN [raises |-> FALSE, tm |-> TRUE,
               e |-> IF ts_data = "3col" THEN "bound" ELSE "unbound",
               truthy |-> ts_data = "3col"]
    ELSE IF LacksTs(known)
         THEN [raises |-> TRUE, tm |-> FALSE, e |-> "unbound", truthy |-> FALSE]
    ELSE [raises |-> FALSE, tm |-> FALSE, e |-> "unbound", truthy |-> FALSE]

\* Lines 689-693: the keys the call binds in features_already_known.  t and m
\* are bound only where they are missing; line 692 reads e, which is bound
\* only if a branch that assigns it was taken.
KeysAdded(known, sel) ==
    {n \in {"t", "m"} : n \notin DOMAIN known}
        \cup (IF sel.e = "bound" /\ sel.truthy /\ "e" \notin DOMAIN known
              THEN {"e"} ELSE {})

\* Lines 676-693: the time-series input is selected and put into
\* features_already_known, in place: when the dict is the default object,
\* the default keeps what was written.
SelectInput ==
    /\ g_pc = "select"
    /\ LET sel == select_input(g_known, g_path, g_ts_data)
           added == IF sel.raises THEN {} ELSE KeysAdded(g_known, sel)
           known == [n \in DOMAIN g_known \cup added |->
                        IF n \in added THEN FromCall(g_call) ELSE g_known[n]]
       IN /\ g_known' = known
          /\ default_known' = IF g_arg_known.given THEN default_known ELSE known
          /\ IF sel.raises
             THEN /\ g_exit' = FrontRaised("MissingTimeSeriesInput")
                  /\ g_pc' = "exited"
             ELSE IF sel.e = "unbound"
             THEN /\ g_exit' = FrontRaised("UnboundLocalError")
                  /\ g_pc' = "exited"
             ELSE /\ g_pc' = "mode"
                  /\ UNCHANGED g_exit
    /\ UNCHANGED <<frontInputs, g_call, g_fn, g_known_in, g_mode, g_printed>>
    /\ UNCHANGED <<schedVars, wrapVars, dockVars, parseVars>>

\* Lines 553-566, 591: a call of verify_new_script begins and assembles the
\* three sample instances.
TestInstance == [n \in {"t", "m", "e", "coords"} |-> "given"]
assemble_test_data == <<TestInstance, TestInstance, TestInstance>>

VerifyCall ==
    /\ g_pc \in {"idle", "exited"}
    /\ g_call < MaxCalls
    /\ g_call' = g_call + 1
    /\ g_fn' = "verify_new_script"
    /\ g_known_in' = EmptyDict
    /\ g_known' = EmptyDict
    /\ g_mode' = "none"
    /\ g_printed' = "none"
    /\ g_exit' = NoFrontExit
    /\ g_pc' = "mode"
    /\ FreshFrames
    /\ UNCHANGED <<frontInputs, default_known>>

\* Lines 695-707: how generate_custom_features runs the script.
RunMode(inside, available) ==
    IF inside THEN "direct"
    ELSE IF available THEN "docker" ELSE "direct"

\* Mutant: without the images the script is run in this process.
VerifyMode_direct(available) == IF available THEN "docker" ELSE "direct"

\* Lines 594-602: how verify_new_script runs the script.
VerifyMode(available) == IF available THEN "docker" ELSE "skipped"

\* print writes to whatever sys.stdout is bound to; a DummyFile drops it.
PrintedTo(stream) == IF stream = "orig" THEN "visible" ELSE "lost"

\* Lines 252-301: execute_functions_in_order parses the script, makes a list
\* of the KnownFeatures and calls call_custom_functions, passing
\* all_required_params for both the required and the provided parameter.
StartScheduler(list) ==
    /\ entry' = "execute_functions_in_order"
    /\ fnames_req_prov_dict' = script
    /\ all_required_params' = AllRequired(script)
    /\ all_provided_params' = AllRequired(script)
    /\ features_already_known_list' = list
    /\ pc' = "call"
    /\ UNCHANGED <<sys_stdout, inst, loopVars, all_extracted_features_list,
                   calls, exc, save_stdout, deterministic, user_code, run_no,
                   first_run, key_order>>

\* Lines 695-707 and 594-602: the call prints its notice and runs the script
\* in this process, hands it to docker_extract_features, or skips it.
ChooseMode ==
    /\ g_pc = "mode"
    /\ LET mode == IF g_fn = "generate_custom_features"
                   THEN RunMode(in_docker, images_available)
                   ELSE VerifyMode(images_available)
           list == IF g_fn = "generate_custom_features" THEN <<g_known>>
                   ELSE assemble_test_data
       IN /\ g_mode' = mode
          /\ g_printed' =
                 IF g_fn = "generate_custom_features" /\ in_docker THEN "none"
                 ELSE PrintedTo(sys_stdout)
          /\ IF mode = "direct"
             THEN /\ StartScheduler(list)
                  /\ g_pc' = "running"
                  /\ UNCHANGED <<g_exit, dockVars>>
             ELSE IF mode = "docker"
             THEN /\ BeginDockerCall(Given(list), Omitted, Omitted)
                  /\ g_pc' = "running"
                  /\ UNCHANGED <<g_exit, schedVars>>
             ELSE /\ g_exit' = FrontReturned("empty")
                  /\ g_pc' = "exited"
                  /\ UNCHANGED <<schedVars, dockVars>>
    /\ UNCHANGED <<frontInputs, default_known, g_call, g_fn, g_known_in, g_known>>
    /\ UNCHANGED <<wrapVars, parseVars>>

\* Lines 696-709 and 596-603: the scheduler or docker_extract_features has
\* returned or raised; the call returns what it got, or the exception goes
\* on to the caller.
FrontReturn ==
    /\ g_pc = "running"
    /\ \/ /\ g_mode = "direct"
          /\ pc \in {"done", "raised"}
          /\ g_exit' = IF pc = "done" THEN FrontReturned("results")
                       ELSE FrontRaised(exc.type)
       \/ /\ g_mode = "docker"
          /\ d_pc = "exited"
          /\ g_exit' = IF d_exit.kind = "returned" THEN FrontReturned("results")
                       ELSE FrontRaised(d_exit.type)
    /\ g_pc' = "exited"
    /\ UNCHANGED <<frontInputs, default_known, g_call, g_fn, g_known_in,
                   g_known, g_mode, g_printed>>
    /\ UNCHANGED <<schedVars, wrapVars, dockVars, parseVars>>

\* Calls of the two functions in one process.  Through
\* execute_functions_in_order the unsatisfiable-dependency check of
\* call_custom_functions cannot fail.
FrontNext ==
    \/ GenerateCall
    \/ SelectInput
    \/ VerifyCall
    \/ ChooseMode
    \/ FrontReturn
    \/ RedirectStdout
    \/ BeginInstance
    \/ BeginRound
    \/ DeferFunction
    \/ InvokeFunction
    \/ EndRound
    \/ EndInstance
    \/ ReturnList
    \/ AddTsData
    \/ MakeTmpDir
    \/ CopyScript
    \/ DumpFeatures
    \/ ImportDocker
    \/ NewClient
    \/ CreateContainer
    \/ StartContainer
    \/ WaitContainer
    \/ DockerCopy
    \/ PickleLoad
    \/ InnerFinally
    \/ OuterFinally

\* ------------------------------------------------------------------------
\* parse_for_req_prov_params
\* ------------------------------------------------------------------------

\* A line of the script is modelled by what the scan tests and extracts:
\*   annotation      holds "@myFeature" and matches
\*                   "@myFeature(requires={requires}, provides={provides})",
\*                   both texts being list literals;
\*   bad_list        holds "@myFeature" and matches the pattern, but one of
\*                   the two texts is not a well-formed list literal;
\*   bad_annotation  holds "@myFeature" and does not match the pattern;
\*   def             holds "def " and matches "def {funcname}({args}):";
\*   bad_def         holds "def " and does not match that pattern;
\*   other           holds neither "@myFeature" nor "def ".
AnnRequires == {{}, {"x"}}
AnnProvides == {{"x"}, {"y"}}
DefNames == {"f1", "f2"}
Line(kind, requires, provides, funcname) ==
    [kind |-> kind, requires |-> requires, provides |-> provides,
     funcname |-> funcname]
Lines ==
    {Line("annotation", r, p, "") : r \in AnnRequires, p \in AnnProvides}
        \cup {Line(k, {}, {}, "") : k \in {"bad_list", "bad_annotation",
                                           "bad_def", "other"}}
        \cup {Line("def", {}, {}, f) : f \in DefNames}
ScriptFiles == UNION {[1..n -> Lines] : n \in 0..MaxLines}

\* "@myFeature" in line, "def " in line
HasMarker(line) == line.kind \in {"annotation", "bad_list", "bad_annotation"}
HasDef(line) == line.kind \in {"def", "bad_def"}

\* Nothing of parse_for_req_prov_params is running.
ParseIdle ==
    /\ all_lines = <<>>
    /\ line_no = 0
    /\ p_pc = "idle"
    /\ p_exc = "none"
    /\ p_fnames_req_prov_dict = EmptyDict
    /\ p_all_required_params = {}
    /\ p_all_provided_params = {}

\* Lines 151-155: the file is read and the three results are empty.
ParserInit ==
    /\ all_lines \in ScriptFiles
    /\ line_no = 0
    /\ p_pc = "scan"
    /\ p_exc = "none"
    /\ p_fnames_req_prov_dict = EmptyDict
    /\ p_all_required_params = {}
    /\ p_all_provided_params = {}

\* Line 156: i is in range(len(all_lines) - 1).
InRange == p_pc = "scan" /\ line_no < Len(all_lines) - 1

\* Line 157: the test on lines i and i + 1.
PairTest ==
    /\ HasMarker(all_lines[line_no + 1])
    /\ HasDef(all_lines[line_no + 2])

\* Lines 158-171: what the body of the if does with lines i and i + 1.  parse
\* returns None for a text that does not match its pattern, and .named of
\* None raises AttributeError; eval of a malformed literal raises
\* SyntaxError.  The value of the assignment at lines 163-165 is evaluated
\* before its target.
PairOutcome ==
    LET ann == all_lines[line_no + 1]
        decl == all_lines[line_no + 2]
    IN IF ann.kind = "bad_annotation" THEN "AttributeError"
       ELSE IF ann.kind = "bad_list" THEN "SyntaxError"
       ELSE IF decl.kind = "bad_def" THEN "AttributeError"
       ELSE "none"

\* Line 157, test false: the loop goes on to the next line.
SkipLine ==
    /\ InRange
    /\ ~PairTest
    /\ line_no' = line_no + 1
    /\ UNCHANGED <<all_lines, p_pc, p_exc, p_fnames_req_prov_dict,
                   p_all_required_params, p_all_provided_params>>
    /\ UNCHANGED <<schedVars, wrapVars, dockVars, frontVars>>

\* Lines 158-171: the contract is stored under the function's name and its
\* names are added to the two unions.
RecordContract ==
    /\ InRange
    /\ PairTest
    /\ PairOutcome = "none"
    /\ LET ann == all_lines[line_no + 1]
           decl == all_lines[line_no + 2]
       IN /\ p_fnames_req_prov_dict' =
                 DictMerge(p_fnames_req_prov_dict,
                           [f \in {decl.funcname} |->
                               [requires |-> ann.requires,
                                provides |-> ann.provides]])
          /\ p_all_required_params' = p_all_required_params \cup ann.requires
          /\ p_all_provided_params' = p_all_provided_params \cup ann.provides
    /\ line_no' = line_no + 1
    /\ UNCHANGED <<all_lines, p_pc, p_exc>>
    /\ UNCHANGED <<schedVars, wrapVars, dockVars, frontVars>>

\* Lines 158-165: the exception leaves parse_for_req_prov_params.
RaiseInParser ==
    /\ InRange
    /\ PairTest
    /\ PairOutcome # "none"
    /\ p_pc' = "raised"
    /\ p_exc' = PairOutcome
    /\ UNCHANGED <<all_lines, line_no, p_fnames_req_prov_dict,
                   p_all_required_params, p_all_provided_params>>
    /\ UNCHANGED <<schedVars, wrapVars, dockVars, frontVars>>

\* Line 172: the loop is over and the three results are returned.
ParserReturn ==
    /\ p_pc = "scan"
    /\ ~(line_no < Len(all_lines) - 1)
    /\ p_pc' = "returned"
    /\ UNCHANGED <<all_lines, line_no, p_exc, p_fnames_req_prov_dict,
                   p_all_required_params, p_all_provided_params>>
    /\ UNCHANGED <<schedVars, wrapVars, dockVars, frontVars>>

ParserNext ==
    \/ SkipLine
    \/ RecordContract
    \/ RaiseInParser
    \/ ParserReturn

\* ------------------------------------------------------------------------
\* Specifications
\* ------------------------------------------------------------------------

Init == SchedInit /\ WrapIdle /\ DockIdle /\ FrontIdle /\ ParseIdle
Next == SchedNext
Spec == Init /\ [][Next]_vars

\* call_custom_functions is one sequential call: it keeps taking steps until
\* it returns or raises.
FairSpec == Spec /\ WF_vars(Next)

\* Direct calls of a wrapped function.
WrapSpecInit == SchedIdle /\ WrapInit /\ DockIdle /\ FrontIdle /\ ParseIdle
WrapSpec == WrapSpecInit /\ [][WrapNext]_vars

\* call_custom_functions is entered: nothing of its body has run.
AtEntry ==
    /\ pc = "call"
    /\ sys_stdout = "orig"
    /\ inst = 0
    /\ all_required_params_copy = {}
    /\ funcnames = <<>>
    /\ pos = 1
    /\ i = 0
    /\ func_rounds = <<>>
    /\ func_queue = <<>>
    /\ all_extracted_features = EmptyDict
    /\ all_extracted_features_list = <<>>
    /\ calls = <<>>
    /\ exc = NoExc
    /\ save_stdout = "orig"
    /\ user_code = {}
    /\ run_no = 1
    /\ first_run = NoRun
    /\ key_order = DeclOrder

ChainInit ==
    /\ \E dict \in ChainScripts, known \in ChainKnownDicts :
           \/ execute_functions_in_order(dict, known)
           \/ call_custom_functions(dict, known)
    /\ deterministic = FALSE
    /\ AtEntry
    /\ WrapIdle
    /\ DockIdle
    /\ FrontIdle
    /\ ParseIdle

\* The scheduler run on a two-function chain.
ChainSpec == ChainInit /\ [][Next]_vars

\* The fresh frame of a second call of call_custom_functions by the same
\* caller, with the same script and the same user functions.  sys.stdout is
\* whatever the first call left.
NewCall ==
    /\ run_no' = 2
    /\ pc' = "call"
    /\ inst' = 0
    /\ all_required_params_copy' = {}
    /\ funcnames' = <<>>
    /\ pos' = 1
    /\ i' = 0
    /\ func_rounds' = <<>>
    /\ func_queue' = <<>>
    /\ all_extracted_features' = EmptyDict
    /\ all_extracted_features_list' = <<>>
    /\ calls' = <<>>
    /\ exc' = NoExc
    /\ UNCHANGED <<entry, fnames_req_prov_dict, all_required_params,
                   all_provided_params, deterministic, user_code, sys_stdout,
                   save_stdout>>
    /\ UNCHANGED <<wrapVars, dockVars, frontVars, parseVars>>

\* How the call that just ended went; picked is the instance the caller
\* passes on its own next, 0 if it passes the same list.
EndedRun(picked) ==
    [pc |-> pc, exc |-> exc, list |-> all_extracted_features_list,
     calls |-> calls, known |-> features_already_known_list,
     picked |-> picked]

\* A caller runs a script on one KnownFeatures mapping, through either entry.
RepeatInit ==
    /\ \E dict \in Scripts, known \in KnownDicts :
           \/ execute_functions_in_order(dict, known)
           \/ call_custom_functions(dict, known)
    /\ deterministic = TRUE
    /\ AtEntry
    /\ WrapIdle
    /\ DockIdle
    /\ FrontIdle
    /\ ParseIdle

\* The first call has returned or raised; the caller calls again with what
\* it passed before.
CallAgain ==
    /\ run_no = 1
    /\ pc \in {"done", "raised"}
    /\ first_run' = EndedRun(0)
    /\ UNCHANGED <<features_already_known_list, key_order>>
    /\ NewCall

RepeatNext ==
    \/ SchedNext
    \/ CallAgain

\* The scheduler run twice on the same script and KnownFeatures.
RepeatSpec == RepeatInit /\ [][RepeatNext]_vars

\* A caller hands call_custom_functions a list of instances.
BatchScripts == {dict \in Scripts : DOMAIN dict \subseteq {"f1", "f2"}}
InstanceLists == UNION {[1..n -> KnownDicts] : n \in 1..MaxInstances}

BatchInit ==
    /\ entry = "call_custom_functions"
    /\ fnames_req_prov_dict \in BatchScripts
    /\ all_required_params = AllRequired(fnames_req_prov_dict)
    /\ all_provided_params = AllProvided(fnames_req_prov_dict)
    /\ features_already_known_list \in InstanceLists
    /\ deterministic = TRUE
    /\ AtEntry
    /\ WrapIdle
    /\ DockIdle
    /\ FrontIdle
    /\ ParseIdle

\* The call on the list has returned; the caller calls again with a list
\* that holds one instance of it.
CallSingle ==
    /\ run_no = 1
    /\ pc = "done"
    /\ \E picked \in DOMAIN features_already_known_list :
           /\ first_run' = EndedRun(picked)
           /\ features_already_known_list' =
                  <<features_already_known_list[picked]>>
    /\ UNCHANGED key_order
    /\ NewCall

BatchNext ==
    \/ SchedNext
    \/ CallSingle

\* The scheduler run on a list of instances, then on one of them alone.
BatchSpec == BatchInit /\ [][BatchNext]_vars

\* parse_for_req_prov_params called on a script file.
ParserSpecInit == SchedIdle /\ WrapIdle /\ DockIdle /\ FrontIdle /\ ParserInit
ParserSpec == ParserSpecInit /\ [][ParserNext]_vars

\* The orders in which fnames_req_prov_dict can yield its keys: the orders in
\* which the script can declare its functions.
KeyOrders ==
    {o \in [1..Len(DeclOrder) -> Range(DeclOrder)] : Range(o) = Range(DeclOrder)}

\* The first call has returned or raised; the caller calls again with what it
\* passed before, the functions of the script being declared in another order.
CallReordered ==
    /\ run_no = 1
    /\ pc \in {"done", "raised"}
    /\ first_run' = EndedRun(0)
    /\ key_order' \in KeyOrders \ {key_order}
    /\ UNCHANGED features_already_known_list
    /\ NewCall

\* Scripts in which each function provides a name of its own and requires
\* any names: the k-th function declared provides the k-th name.
OrderNames == <<"x", "y", "z">>
OrderReqSets == {r \in SUBSET Range(OrderNames) : Cardinality(r) <= MaxReq}
OrderProvides(f) ==
    {OrderNames[CHOOSE j \in DOMAIN DeclOrder : DeclOrder[j] = f]}
OrderScripts ==
    UNION {{[f \in DOMAIN req |->
                [requires |-> req[f], provides |-> OrderProvides(f)]] :
               req \in [{DeclOrder[j] : j \in 1..k} -> OrderReqSets]} :
           k \in 1..Len(DeclOrder)}

\* A caller hands call_custom_functions a script and one KnownFeatures mapping.
OrderInit ==
    /\ \E dict \in OrderScripts, known \in KnownDicts :
           call_custom_functions(dict, known)
    /\ deterministic = TRUE
    /\ AtEntry
    /\ WrapIdle
    /\ DockIdle
    /\ FrontIdle
    /\ ParseIdle

OrderNext ==
    \/ SchedNext
    \/ CallReordered

\* The scheduler run on a script, then on the same script with its functions
\* declared in another order.
OrderSpec == OrderInit /\ [][OrderNext]_vars

\* Calls of docker_extract_features on one host.
DockSpecInit == SchedIdle /\ WrapIdle /\ DockIdle /\ FrontIdle /\ ParseIdle
DockSpec == DockSpecInit /\ [][DockNext]_vars

\* Calls of generate_custom_features and verify_new_script in one process.
FrontSpecInit == SchedIdle /\ WrapIdle /\ DockIdle /\ FrontInit /\ ParseIdle
FrontSpec == FrontSpecInit /\ [][FrontNext]_vars

\* Calls of docker_extract_features by a caller outside this module.
TsDataSpecInit == SchedIdle /\ WrapIdle /\ TsDataInit /\ FrontIdle /\ ParseIdle
TsDataSpec == TsDataSpecInit /\ [][DockNext]_vars

\* ------------------------------------------------------------------------
\* Properties of the scheduler
\* ------------------------------------------------------------------------

Requires(f) == fnames_req_prov_dict[f].requires
Provides(f) == fnames_req_prov_dict[f].provides
Declared == DOMAIN fnames_req_prov_dict

\* The calls made for instance k of the list.
CallsOf(k) == {c \in Range(calls) : c.inst = k}
TimesCalled(k, f) == Cardinality({j \in DOMAIN calls :
                                     calls[j].inst = k /\ calls[j].fn = f})

\* Every name still required once the KnownFeatures are taken out has a
\* producer among the contracts.
Satisfiable(known) ==
    \A n \in AllRequired(fnames_req_prov_dict) \ DOMAIN known :
        n \in AllProvided(fnames_req_prov_dict)

\* f depends on g: f requires a name that is not known and that g provides.
DependsOn(known, f, g) == (Requires(f) \ DOMAIN known) \cap Provides(g) # {}

\* The functions reachable from f along at most n dependency edges (n >= 1).
RECURSIVE ReachableFrom(_, _, _)
ReachableFrom(known, f, n) ==
    LET direct == {g \in Declared : DependsOn(known, f, g)}
    IN IF n <= 1 THEN direct
       ELSE direct \cup UNION {ReachableFrom(known, g, n - 1) : g \in direct}

Acyclic(known) ==
    \A f \in Declared : f \notin ReachableFrom(known, f, Cardinality(Declared))

WellFormedRun ==
    \A k \in DOMAIN features_already_known_list :
        /\ Satisfiable(features_already_known_list[k])
        /\ Acyclic(features_already_known_list[k])

\* C1: whenever the scheduler calls a user function, every name of the
\* function's declared requires was a key of KnownFeatures or of the features
\* already extracted: the gathered arguments cover the requires, and the
\* wrapper never reports a missing parameter.
C1_InputsAvailable ==
    /\ \A c \in Range(calls) : Requires(c.fn) \subseteq DOMAIN c.args
    /\ exc.type # "MissingRequiredParameterError"

\* A function was called with an argument that an earlier function returned.
C1_Witness ==
    \E c \in Range(calls) :
        /\ c.ran
        /\ \E n \in DOMAIN c.args : c.args[n] # "given"

\* C2: for a satisfiable contract set without dependency cycle the loop ends
\* (it returns, or a user function fails: it raises or breaks its contract);
\* no function is called twice for an instance, and when the loop has
\* finished an instance every function was called exactly once for it.
C2_AtMostOnce ==
    \A k \in 0..inst : \A f \in Declared : TimesCalled(k, f) <= 1
C2_ExactlyOnceWhenFinished ==
    \A k \in 0..(inst - 1) : \A f \in Declared : TimesCalled(k, f) = 1
C2_Ended ==
    \/ pc = "done"
    \/ pc = "raised" /\ exc.type \in {"UserException", "MissingRequiredReturnKeyError"}
C2_TerminatesExactlyOnce ==
    /\ [](C2_AtMostOnce /\ C2_ExactlyOnceWhenFinished)
    /\ (WellFormedRun ~> C2_Ended)

\* A script of three functions finished in more than one round.
C2_Witness ==
    /\ pc = "done"
    /\ WellFormedRun
    /\ Cardinality(Declared) = 3
    /\ Len(calls) = 3
    /\ i >= 2

\* The round in which function g ran for instance k.
RoundOf(k, g) == (CHOOSE c \in CallsOf(k) : c.fn = g).round

\* C3: every extracted value passed as an argument to a function of round N
\* was produced in a round strictly earlier than N.
C3_RoundOrder ==
    \A c \in Range(calls) : \A n \in DOMAIN c.args :
        c.args[n] # "given" => RoundOf(c.inst, c.args[n]) < c.round

\* Two functions each require the other's sole provided name, and neither
\* name is known.
MutualCycle(known) ==
    \E f, g \in Declared : \E a, b \in Names :
        /\ f # g /\ a # b
        /\ Provides(f) = {a} /\ Provides(g) = {b}
        /\ b \in Requires(f) /\ a \in Requires(g)
        /\ a \notin DOMAIN known /\ b \notin DOMAIN known

\* A round has ended, functions remain and each of them is deferred: every
\* later round defers them all again and changes nothing but i.
Livelocked ==
    /\ pc = "while"
    /\ i > 0
    /\ Len(funcnames) > 0
    /\ \A f \in Range(funcnames) : Deferred(all_required_params_copy, Requires(f))

\* C4: on a mutual cycle the run fails with CyclicDependency; it never
\* reaches a state from which it loops forever with functions left and none
\* eligible.
C4_CycleDetected ==
    (inst < Len(features_already_known_list) /\ MutualCycle(features_already_known))
        => ~Livelocked

\* Some required name is neither known nor provided by any contract.
Unsatisfiable(known) == ~Satisfiable(known)

\* C5: through execute_functions_in_order, a script that requires a name
\* neither known nor provided fails with the unsatisfiable-dependency error
\* before any user function is called: it never enters the rounds.
C5_UnsatisfiableFailsFirst ==
    (/\ entry = "execute_functions_in_order"
     /\ inst < Len(features_already_known_list)
     /\ pc # "call"
     /\ Unsatisfiable(features_already_known))
        => /\ calls = <<>>
           /\ pc \in {"for_inst", "raised"}
           /\ pc = "raised" => exc.type = "UnsatisfiableDependency"

\* The functions that ran for the current instance in the rounds before round
\* i, and the PendingSet as it was when round i started.
RanBeforeRound == UNION {Range(func_rounds[r]) : r \in 1..i}
PendingAtRoundStart ==
    PendingSet(features_already_known)
        \ UNION {Provides(f) : f \in RanBeforeRound}

\* C18: when a round ends, every function that has not run yet had one of
\* its requires in the PendingSet as it was at the start of that round: no
\* function that was eligible when the round started is left for a later
\* round.
C18_RoundComplete ==
    (pc = "for_func" /\ pos > Len(funcnames))
        => \A f \in Range(funcnames) :
               Deferred(PendingAtRoundStart, Requires(f))

\* C19: called with the true union of the provides, call_custom_functions
\* raises the unsatisfiable-dependency error for an instance exactly when a
\* name of (all requires) minus (keys of the instance) is in no contract's
\* provides, and no user function has been called for that instance when it
\* raises.
C19_CheckStep ==
    (/\ entry = "call_custom_functions"
     /\ pc = "for_inst"
     /\ inst < Len(features_already_known_list))
        => (Unsatisfiable(features_already_known)
               <=> (pc' = "raised" /\ exc'.type = "UnsatisfiableDependency"))
C19_RaisedBeforeCalls ==
    (entry = "call_custom_functions" /\ exc.type = "UnsatisfiableDependency")
        => /\ Unsatisfiable(features_already_known)
           /\ exc.name \in AllRequired(fnames_req_prov_dict)
                              \ DOMAIN features_already_known
           /\ exc.name \notin AllProvided(fnames_req_prov_dict)
           /\ CallsOf(inst) = {}
C19_UnsatisfiableIffRaised ==
    /\ []C19_RaisedBeforeCalls
    /\ [][C19_CheckStep]_vars

\* The direct call raised the error although some of the required names were
\* known.
C19_Witness ==
    /\ entry = "call_custom_functions"
    /\ pc = "raised"
    /\ exc.type = "UnsatisfiableDependency"
    /\ AllRequired(fnames_req_prov_dict) \cap DOMAIN features_already_known # {}

\* The function of the chain that provides x, and the one that requires it.
Producer == CHOOSE f \in Declared : Provides(f) = {"x"}
Consumer == CHOOSE f \in Declared : Requires(f) = {"x"}
ChainCase ==
    /\ fnames_req_prov_dict \in ChainScripts
    /\ DOMAIN features_already_known_list[1] = {"m"}

\* C20: for the chain f(requires m, provides x), g(requires x, provides y)
\* with only m known, in either declaration order: the producer of x is
\* called in round 0 and has been called once round 0 is over, the consumer
\* is called in round 1 with the x the producer returned and has been called
\* once round 1 is over, and the ExtractedFeatures returned hold x and y.
C20_ChainInTwoRounds ==
    ChainCase =>
        /\ \A c \in Range(calls) :
               \/ c.fn = Producer /\ c.round = 0 /\ c.args = [n \in {"m"} |-> "given"]
               \/ c.fn = Consumer /\ c.round = 1 /\ c.args = [n \in {"x"} |-> Producer]
        /\ (i >= 1 /\ pc # "raised") => TimesCalled(0, Producer) = 1
        /\ (i >= 2 /\ pc # "raised") => TimesCalled(0, Consumer) = 1
        /\ pc = "done" =>
               /\ Len(all_extracted_features_list) = 1
               /\ {"x", "y"} \subseteq DOMAIN all_extracted_features_list[1]
               /\ func_rounds = <<(<<Producer>>), (<<Consumer>>)>>

\* The chain finished with the consumer declared before the producer.
C20_Witness ==
    /\ ChainCase
    /\ pc = "done"
    /\ Producer = "f2"
    /\ Len(calls) = 2

\* The caller's second call has ended.
SecondEnded == run_no = 2 /\ pc \in {"done", "raised"}

\* C14: a successful call on a list of instances returns a list of the same
\* length, and running the scheduler on the k-th instance alone succeeds and
\* returns exactly the k-th element of that list.
C14_BatchIndependence ==
    /\ pc = "done" =>
           Len(all_extracted_features_list) = Len(features_already_known_list)
    /\ (SecondEnded /\ first_run.picked > 0) =>
           /\ first_run.pc = "done"
           /\ pc = "done"
           /\ all_extracted_features_list =
                  <<first_run.list[first_run.picked]>>

\* The second instance of a list of two different instances, both of which
\* took part in the computation, was run again alone.
C14_Witness ==
    /\ SecondEnded
    /\ first_run.pc = "done"
    /\ first_run.picked = 2
    /\ first_run.known[1] # first_run.known[2]
    /\ first_run.list[1] # first_run.list[2]
    /\ \E c \in Range(calls) : \E n \in DOMAIN c.args : c.args[n] = "given"

UniqueProviders ==
    \A f, g \in Declared : f # g => Provides(f) \cap Provides(g) = {}

\* No user function has returned a key its contract does not declare.
DeclaredKeysOnly ==
    \A u \in user_code :
        u.res.kind = "return" => DOMAIN u.res.value \subseteq Provides(u.fn)

\* The second call ended as the first: it returned the same
\* ExtractedFeatures, having called the same functions, or it raised as the
\* first did; and each function called both times got the same arguments.
SameResult ==
    /\ pc = first_run.pc
    /\ pc = "done" =>
           /\ all_extracted_features_list = first_run.list
           /\ {c.fn : c \in Range(calls)} = {c.fn : c \in Range(first_run.calls)}
    /\ \A c \in Range(calls), c1 \in Range(first_run.calls) :
           c.fn = c1.fn => c.args = c1.args

\* C21 as stated: for a satisfiable, cycle-free script in which no name is
\* declared by two functions, and deterministic user functions, a run under
\* any other declaration order returns the same ExtractedFeatures and calls
\* every function with the same arguments.
C21_OrderInvariance ==
    (SecondEnded /\ WellFormedRun /\ UniqueProviders) => SameResult

\* C21, amended: the same, for user functions that return no key outside
\* their declared provides.
C21_OrderInvarianceDeclaredKeys ==
    (SecondEnded /\ WellFormedRun /\ UniqueProviders /\ DeclaredKeysOnly) =>
        SameResult

\* A script with a dependency has run under two declaration orders: the
\* consumer was called with its producer's value both times, in another
\* round the second time.
C21_Witness ==
    /\ SecondEnded /\ WellFormedRun /\ UniqueProviders /\ DeclaredKeysOnly
    /\ pc = "done"
    /\ SameResult
    /\ \E c \in Range(calls), c1 \in Range(first_run.calls) :
           /\ c.fn = c1.fn
           /\ c.round # c1.round
           /\ \E n \in DOMAIN c.args : c.args[n] # "given"

\* The dicts of extracted features: the one being built and the ones already
\* in the list of results.
ExtractedDicts == Range(all_extracted_features_list) \cup {all_extracted_features}

\* C23: call_custom_functions leaves the list of KnownFeatures mappings it
\* was given as it is: no step adds, removes or rebinds a key; and every
\* value in the ExtractedFeatures was returned by a user function the run
\* called: a given value never appears in it.
C23_InputsUntouched == features_already_known_list' = features_already_known_list
C23_OnlyReturnedValues ==
    \A d \in ExtractedDicts : \A n \in DOMAIN d :
        /\ d[n] # "given"
        /\ \E c \in Range(calls) : c.fn = d[n] /\ c.ran
C23_Frame ==
    /\ []C23_OnlyReturnedValues
    /\ [][C23_InputsUntouched]_vars

\* A run has returned in which a function was given a known value and
\* returned a value under a name that is also known.
C23_Witness ==
    /\ pc = "done"
    /\ \E c \in Range(calls) : \E n \in DOMAIN c.args : c.args[n] = "given"
    /\ DOMAIN all_extracted_features_list[1]
           \cap DOMAIN features_already_known_list[1] # {}

\* C24: when call_custom_functions has exited, by returning or by raising,
\* sys.stdout is the stream it was before the call.
C24_StdoutRestored ==
    pc \in {"done", "raised"} => sys_stdout = save_stdout

\* The place in calls of the call of function f for instance k.
CallIndex(k, f) ==
    CHOOSE j \in DOMAIN calls : calls[j].inst = k /\ calls[j].fn = f

\* C25: a name leaves the PendingSet as soon as one of its producers has
\* been called; in the ExtractedFeatures returned, a name holds the value of
\* the last function that returned it, so that no producer of the name ran
\* after that function; and an argument whose name is a key of KnownFeatures
\* is the KnownFeatures value.
C25_DroppedAtFirstProducer ==
    pc \in {"while", "for_func", "raised"} =>
        \A c \in CallsOf(inst) : Provides(c.fn) \cap all_required_params_copy = {}
C25_LastProducerWins ==
    pc = "done" =>
        \A k \in DOMAIN all_extracted_features_list :
            LET d == all_extracted_features_list[k]
            IN /\ \A c \in CallsOf(k - 1) : Provides(c.fn) \subseteq DOMAIN d
               /\ \A n \in DOMAIN d : \A c \in CallsOf(k - 1) :
                      (n \in Provides(c.fn) /\ c.fn # d[n]) =>
                          CallIndex(k - 1, c.fn) < CallIndex(k - 1, d[n])
C25_KnownValueTaken ==
    \A c \in Range(calls) : \A n \in DOMAIN c.args :
        n \in DOMAIN features_already_known_list[c.inst + 1] =>
            c.args[n] = "given"
WellFormedPairs ==
    {k \in 1..(Len(all_lines) - 1) :
        all_lines[k].kind = "annotation" /\ all_lines[k + 1].kind = "def"}

\* The contracts of the well-formed pairs, the last pair of a name counting.
WellFormedContracts ==
    LET named == {all_lines[k + 1].funcname : k \in WellFormedPairs}
        last(f) == CHOOSE k \in WellFormedPairs :
                       /\ all_lines[k + 1].funcname = f
                       /\ \A j \in WellFormedPairs :
                              all_lines[j + 1].funcname = f => j <= k
    IN [f \in named |-> [requires |-> all_lines[last(f)].requires,
                         provides |-> all_lines[last(f)].provides]]

\* An annotation that does not match the pattern or holds a malformed list,
\* or a declaration that does not match, at a place the scan parses.
MalformedPair ==
    \E k \in 1..(Len(all_lines) - 1) :
        /\ HasMarker(all_lines[k]) /\ HasDef(all_lines[k + 1])
        /\ \/ all_lines[k].kind # "annotation"
           \/ all_lines[k + 1].kind # "def"

\* C22: parse_for_req_prov_params does not raise, whatever malformed
\* annotations the script holds, and it returns the contracts of all the
\* well-formed annotation/declaration pairs of the script.
C22_ParserTolerance ==
    /\ p_pc # "raised"
    /\ p_pc = "returned" =>
           /\ p_fnames_req_prov_dict = WellFormedContracts
           /\ p_all_required_params =
                  UNION {all_lines[k].requires : k \in WellFormedPairs}
           /\ p_all_provided_params =
                  UNION {all_lines[k].provides : k \in WellFormedPairs}

\* What the scan does: it raises at the first malformed pair, and returns the
\* contracts of the well-formed pairs when the script holds no malformed pair.
ParserBehaviour ==
    /\ p_pc = "raised" => MalformedPair
    /\ p_pc = "returned" =>
           /\ ~MalformedPair
           /\ p_fnames_req_prov_dict = WellFormedContracts
           /\ p_all_required_params =
                  UNION {all_lines[k].requires : k \in WellFormedPairs}
           /\ p_all_provided_params =
                  UNION {all_lines[k].provides : k \in WellFormedPairs}

\* ------------------------------------------------------------------------
\* Properties of the wrapper
\* ------------------------------------------------------------------------

\* The required names found neither among the positional values nor among
\* the keyword arguments of the call.
MissingParameters ==
    {n \in Range(w_requires) : n \notin Range(w_args) /\ n \notin DOMAIN w_kwargs}

\* The provided names that are no key of the dict the function returns.
MissingReturns ==
    {n \in Range(w_provides) : n \notin DOMAIN w_fres.value}

\* C6: a call of a wrapped function whose body returns a dict ends in
\* (1) MissingRequiredParameterError naming a missing required name, the
\* function not called, if a required name is absent from the arguments;
\* else (2) MissingRequiredReturnKeyError naming a missing key if the
\* returned dict lacks a provided name; else (3) the returned dict itself,
\* undeclared keys included.
C6_WrapperContract ==
    (w_pc = "exited" /\ w_fres.kind = "return") =>
        IF MissingParameters # {}
        THEN /\ w_result.outcome = "MissingRequiredParameterError"
             /\ w_result.name \in MissingParameters
             /\ ~w_result.invoked
        ELSE IF MissingReturns # {}
        THEN /\ w_result.outcome = "MissingRequiredReturnKeyError"
             /\ w_result.name \in MissingReturns
             /\ w_result.invoked
        ELSE /\ w_result.outcome = "return"
             /\ w_result.value = w_fres.value
             /\ w_result.invoked

\* A call with requires and provides declared returned a dict that holds an
\* undeclared key.
C6_Witness ==
    /\ w_pc = "exited"
    /\ w_requires # <<>> /\ w_provides # <<>>
    /\ w_result.outcome = "return"
    /\ "z" \in DOMAIN w_result.value

\* ------------------------------------------------------------------------
\* Properties of docker_extract_features
\* ------------------------------------------------------------------------

Did(step) == step \in Range(d_done)
Exited == d_pc = "exited"

\* C7: whatever the outcome of the isolated run (success, no result to
\* retrieve, the container not created or not started), once the call has
\* exited, its working directory is gone and no container it created exists.
C7_SandboxCleanedUp ==
    (Exited /\ Did("copy_data")) =>
        /\ path_to_tmp_dir \notin tmp_dirs
        /\ d_call \notin containers

\* A call whose container was created but could not be started has exited.
C7_Witness ==
    /\ Exited
    /\ Did("create_container")
    /\ d_failure = "start_container"

\* C8: no exit of the call leaves behind a working directory it created, a
\* failure of the staging steps included.
C8_NoDirLeftBehind ==
    (Exited /\ Did("make_tmp_dir")) => path_to_tmp_dir \notin tmp_dirs

\* C9: when a step of the launch/wait/retrieve phase fails, the call raises
\* the original failure or an error that carries it as its cause.
C9_OriginalFailureRaised ==
    (Exited /\ d_failure # "none") =>
        /\ d_exit.kind = "raised"
        /\ d_exit.type = d_failure \/ d_exit.cause = d_failure

\* C10: the call returns a value only when the results file of its own
\* container was copied back and loaded, and the value is that result; after
\* a failure in the launch/wait/retrieve phase it exits with an error.
C10_ReturnsOnlyOwnResult ==
    Exited =>
        /\ d_exit.kind = "returned" =>
               /\ d_failure = "none"
               /\ Did("docker_copy") /\ Did("pickle_load")
               /\ d_exit.value = d_call
        /\ d_failure # "none" => d_exit.kind = "raised"

\* The second call on the host returned a result after the first had exited.
C10_Witness ==
    /\ Exited
    /\ d_call = 2
    /\ d_exit.kind = "returned"

\* Instance k of the list the call found lacks t or m, and the caller gave
\* neither a data-file path nor a ts_data entry for it.
NoPathFor(k) == ~arg_paths.given \/ arg_paths.list[k] = "None"
NoDataFor(k) == ~arg_data.given \/ arg_data.list[k] = "None"
MissingTsInput(k) == LacksTs(d_known_in[k]) /\ NoPathFor(k) /\ NoDataFor(k)

\* docker_extract_features is past its input check.
InputChecked == d_pc \notin {"idle", "add_tsdata"}

\* C16: when some instance lacks t or m and has neither a path nor a ts_data
\* entry, the call raises ValueError and has created no working directory
\* and no container; instances that hold t and m are left as they were.
C16_MissingInputIsValueError ==
    InputChecked =>
        /\ (\E k \in DOMAIN d_known_in : MissingTsInput(k)) =>
               /\ d_exit.kind = "raised"
               /\ d_exit.type = "ValueError"
               /\ d_done = <<>>
        /\ \A k \in DOMAIN d_known_in :
               ~LacksTs(d_known_in[k]) => d_known[k] = d_known_in[k]

\* ------------------------------------------------------------------------
\* Properties of generate_custom_features and verify_new_script
\* ------------------------------------------------------------------------

\* The current call is a call of generate_custom_features that has decided
\* how to run the script.
GenerateDecided == g_fn = "generate_custom_features" /\ g_mode # "none"

\* C11: generate_custom_features hands the script to
\* docker_extract_features exactly when it is not inside a container and the
\* images are available; inside a container it runs the scheduler in this
\* process and starts no container; outside a container without the images
\* it runs the scheduler in this process and its warning was visible.
C11_RunModeDecision ==
    GenerateDecided =>
        /\ g_mode = "docker" <=> (~in_docker /\ images_available)
        /\ g_mode = "docker" => (d_pc # "idle" /\ pc = "idle")
        /\ g_mode = "direct" => (pc # "idle" /\ d_pc = "idle")
        /\ in_docker => g_mode = "direct"
        /\ (g_mode = "direct" /\ ~in_docker) => g_printed = "visible"

\* The current call is a call of verify_new_script that has decided how to
\* run the script.
VerifyDecided == g_fn = "verify_new_script" /\ g_mode # "none"

\* C12: verify_new_script never runs the scheduler in this process; without
\* the images it starts nothing and returns the empty list; with them it
\* hands the three sample instances to docker_extract_features.
C12_VerifyOnlyInSandbox ==
    VerifyDecided =>
        /\ pc = "idle" /\ calls = <<>>
        /\ ~images_available =>
               /\ g_mode = "skipped"
               /\ d_pc = "idle"
               /\ g_pc = "exited"
               /\ g_exit = FrontReturned("empty")
        /\ images_available =>
               /\ g_mode = "docker"
               /\ d_pc # "idle"
               /\ arg_known = Given(assemble_test_data)
               /\ Len(d_known_in) = 3

\* verify_new_script was called without the images, after a call of
\* generate_custom_features that ran the script in this process.
C12_Witness ==
    /\ VerifyDecided
    /\ g_mode = "skipped"
    /\ g_call = 2
    /\ sys_stdout = "dummy"

\* C13: a call of generate_custom_features that omits
\* features_already_known finds an empty mapping, and the t, m and e it
\* works with are the ones parsed from its own path or ts_data.
C13_KnownFeaturesPerCall ==
    (g_fn = "generate_custom_features" /\ ~g_arg_known.given) =>
        /\ g_known_in = EmptyDict
        /\ \A n \in DOMAIN g_known : g_known[n] = FromCall(g_call)

\* None of the three sources of the current call is usable.
NoUsableInput ==
    /\ g_path = "None"
    /\ g_ts_data = "None"
    /\ LacksTs(g_known_in)

\* C15: generate_custom_features raises the missing-input error exactly when
\* there is no path, no ts_data and the mapping lacks t or m, and then
\* nothing has been run; with a usable source the input selection does not
\* fail and the call goes on to run the script.
C15_InputSelection ==
    (g_fn = "generate_custom_features" /\ g_pc # "select") =>
        /\ g_exit.type = "MissingTimeSeriesInput" <=> NoUsableInput
        /\ NoUsableInput => (g_mode = "none" /\ pc = "idle" /\ d_pc = "idle")
        /\ ~NoUsableInput => (g_pc = "exited" => g_mode # "none")

====
